---- MODULE Spec2Model ----
(***************************************************************************)
(* devspin: a local multi-service process supervisor.                      *)
(*                                                                         *)
(* The module models the process registry (ProcessState behind the global  *)
(* mutex), the dependency resolver (sort_services_by_dependencies), the    *)
(* start command (foreground and background paths) and the stop command    *)
(* (graceful stop, escalation to a forced stop, stop of all projects),     *)
(* together with the operating system's processes the commands act on.     *)
(***************************************************************************)
EXTENDS Naturals, Integers, Sequences, FiniteSets, TLC

VARIABLES
    registry,   \* ProcessState.processes: HashMap<u32, ProcessInfo>
    lock,       \* holder of the GLOBAL_STATE mutex, or NoTask
    alive,      \* PIDs the OS knows (kill -0 succeeds)
    pc,         \* per invocation: the position in its command
    args,       \* per invocation: StartArgs / StopArgs
    queue,      \* per invocation: the list being iterated
    idx,        \* per invocation: index into queue (1-based)
    dep,        \* per invocation: index into the current service's dependencies
    projq,      \* per stop --all invocation: the projects still to stop
    polls,      \* per stop invocation: sleeps taken in the exit-poll loop
    result,     \* per invocation: what execute() returned
    log,        \* per invocation: what the run did to processes and registry
    lost,       \* per invocation: PIDs whose record another invocation took
                \* out of the registry (or replaced) while this one ran
    runs,       \* invocations made so far
    sortIn,     \* resolver harness: the input list
    sortOut,    \* resolver harness: the output list, once computed
    call,       \* function harness: the operation applied last, with its arguments
    ret,        \* function harness: what that operation returned
    disk        \* instances harness: the state file, None while there is none

vars == <<registry, lock, alive, pc, args, queue, idx, dep, projq, polls,
          result, log, lost, runs, sortIn, sortOut, call, ret, disk>>

----------------------------------------------------------------------------
(* Bounds of the model *)

\* PIDs the OS hands out are 1..MaxPid
MaxPid == 3

\* invocations of start/stop over one behaviour
MaxRuns == 3

\* --timeout of stop, counted in sleeps of the poll loop
TimeoutPolls == 1

\* longest dependency list of a resolver input
MaxDeps == 2

----------------------------------------------------------------------------
(* Data model *)

Tasks == {"t1", "t2"}
NoTask == "none"
PIDs == 1..MaxPid

\* Option<T>: the empty set is None, {x} is Some(x)
None == {}
Some(x) == {x}
IsSome(o) == o # {}
Unwrap(o) == CHOOSE x \in o : TRUE

\* Service.health_check: Option<HealthCheck>; HealthCheck.port: Option<u16>
HealthCheck(kind, port) == [type_entry |-> kind, port |-> port]

Service(n, deps, hc) == [name |-> n, dependencies |-> deps, health_check |-> hc]

\* ProcessInfo (start_time is never read by start or stop)
ProcessInfo(p, svc, proj, st) ==
    [pid |-> p, service_name |-> svc, project_name |-> proj, status |-> st]

Range(s) == {s[i] : i \in DOMAIN s}

Reverse(s) == [i \in 1..Len(s) |-> s[Len(s) + 1 - i]]

\* every ordering of a finite set, as sequences
Orderings(S) ==
    {s \in [1..Cardinality(S) -> S] : \A i, j \in DOMAIN s : i # j => s[i] # s[j]}

----------------------------------------------------------------------------
(* DependencyResolver: StartArgs::sort_services_by_dependencies *)

\* all_services.iter().find(|s| &s.name == dep_name)
FindService(all_services, dep_name) ==
    LET hits == {i \in DOMAIN all_services : all_services[i].name = dep_name}
    IN  IF hits = {} THEN None
        ELSE Some(all_services[CHOOSE i \in hits : \A j \in hits : i <= j])

RECURSIVE visit_service(_, _, _)
RECURSIVE visit_dependencies(_, _, _, _)

\* a variant of the loop that gives up on the remaining dependencies at the
\* first name that matches no service
visit_dependencies_until_absent(service, k, all_services, st) ==
    IF k > Len(service.dependencies) THEN st
    ELSE LET found == FindService(all_services, service.dependencies[k])
         IN  IF IsSome(found)
             THEN visit_dependencies(service, k + 1, all_services,
                      visit_service(Unwrap(found), all_services, st))
             ELSE st

\* the loop over service.dependencies inside visit_service; st = [visited, sorted]
visit_dependencies(service, k, all_services, st) ==
    IF k > Len(service.dependencies) THEN st
    ELSE LET found == FindService(all_services, service.dependencies[k])
             st1 == IF IsSome(found)
                    THEN visit_service(Unwrap(found), all_services, st)
                    ELSE st
         IN  visit_dependencies(service, k + 1, all_services, st1)

\* a variant that pushes the service before its dependencies are visited
visit_service_preorder(service, all_services, st) ==
    IF service.name \in st.visited THEN st
    ELSE visit_dependencies(service, 1, all_services,
             [visited |-> st.visited \cup {service.name},
              sorted |-> Append(st.sorted, service)])

\* a variant that, on meeting a service already marked but not yet pushed (a
\* cycle), throws away what it has sorted so far
visit_service_resets_on_cycle(service, all_services, st) ==
    IF service.name \in st.visited
    THEN IF service \in Range(st.sorted) THEN st ELSE [st EXCEPT !.sorted = <<>>]
    ELSE LET marked == [st EXCEPT !.visited = @ \cup {service.name}]
             after == visit_dependencies(service, 1, all_services, marked)
         IN  [after EXCEPT !.sorted = Append(@, service)]

visit_service(service, all_services, st) ==
    IF service.name \in st.visited THEN st
    ELSE LET marked == [st EXCEPT !.visited = @ \cup {service.name}]
             after == visit_dependencies(service, 1, all_services, marked)
         IN  [after EXCEPT !.sorted = Append(@, service)]

RECURSIVE sort_loop(_, _, _)
\* a variant of the loop that takes the services from the last to the first
sort_loop_backwards(services, i, st) ==
    IF i > Len(services) THEN st
    ELSE sort_loop(services, i + 1,
             visit_service(services[Len(services) + 1 - i], services, st))

\* for service in services { visit_service(...) }
sort_loop(services, i, st) ==
    IF i > Len(services) THEN st
    ELSE sort_loop(services, i + 1, visit_service(services[i], services, st))

sort_services_by_dependencies(services) ==
    sort_loop(services, 1, [visited |-> {}, sorted |-> <<>>]).sorted

----------------------------------------------------------------------------
(* The projects on disk, as ProjectConfig::from_file would load them *)

ShopServices ==
    << Service("api", <<"db">>, Some(HealthCheck("http", None))),
       Service("db", <<>>, Some(HealthCheck("port", Some(5432)))) >>

BlogServices ==
    << Service("api", <<"db">>, Some(HealthCheck("grpc", None))) >>

\* directories holding a devspin.yaml
Projects == {"shop", "blog"}

\* ProjectConfig.services of the loaded project
ProjectServices(project) ==
    IF project = "shop" THEN ShopServices ELSE BlogServices

\* values of --only / --skip: Option<Vec<String>>, the Vec read only by contains()
FilterOpts == {None, Some({"api"})}

StartArgs(name, background, dry_run, only, skip) ==
    [kind |-> "start", name |-> name, background |-> background,
     dry_run |-> dry_run, only |-> only, skip |-> skip]

StopArgs(project_name, all, force, dry_run, only, skip) ==
    [kind |-> "stop", project_name |-> project_name, all |-> all, force |-> force,
     dry_run |-> dry_run, only |-> only, skip |-> skip]

\* the command lines of the model: every option combination on project
\* "shop", both modes on project "blog", and "ghost", which has no devspin.yaml
StartInvocations ==
    {StartArgs("shop", b, d, o, s) : b \in BOOLEAN, d \in BOOLEAN,
                                     o \in FilterOpts, s \in FilterOpts}
    \cup {StartArgs("blog", b, FALSE, None, None) : b \in BOOLEAN}
    \cup {StartArgs("ghost", FALSE, FALSE, None, None)}

\* every option combination on project "shop", plain and forced stops of
\* "blog" and of --all, and the two ill-formed choices of a target
StopInvocations ==
    {StopArgs(Some("shop"), FALSE, f, d, o, s) : f \in BOOLEAN, d \in BOOLEAN,
                                                 o \in FilterOpts, s \in FilterOpts}
    \cup {StopArgs(Some("blog"), FALSE, f, FALSE, None, None) : f \in BOOLEAN}
    \cup {StopArgs(None, TRUE, f, d, None, None) : f \in BOOLEAN, d \in BOOLEAN}
    \cup {StopArgs(Some("shop"), TRUE, FALSE, FALSE, None, None),
          StopArgs(None, FALSE, FALSE, FALSE, None, None)}

\* StatusArgs: the positional project name and --errors (neither --follow
\* nor --logs)
StatusArgs(project_name, errors) ==
    [kind |-> "status", project_name |-> project_name, errors |-> errors]

NoArgs == [kind |-> "none"]

----------------------------------------------------------------------------
(* Results and the per-run log *)

NoResult == [kind |-> "none", service |-> "", pid |-> 0]
Ok == [kind |-> "Ok", service |-> "", pid |-> 0]
Err(kind, svc, p) == [kind |-> kind, service |-> svc, pid |-> p]

\* no operation applied / nothing returned yet
NoCall == [op |-> "none"]

Ev(e, svc, p) == [ev |-> e, service |-> svc, pid |-> p]

Logged(t, e) == {i \in DOMAIN log[t] : log[t][i].ev = e}

----------------------------------------------------------------------------
(* ProcessState: the registry *)

\* a variant of the insertion that keeps the record it finds
MapInsertKeepsFirst(map, p, info) ==
    [q \in DOMAIN map \cup {p} |-> IF q = p /\ p \notin DOMAIN map THEN info ELSE map[q]]

\* HashMap::insert(pid, info): a record of the same pid is replaced
MapInsert(map, p, info) ==
    [q \in DOMAIN map \cup {p} |-> IF q = p THEN info ELSE map[q]]

\* HashMap::remove(&pid): absent pid leaves the map as it is
MapRemove(map, p) == [q \in DOMAIN map \ {p} |-> map[q]]

\* a variant of add_process that records the process as Stopped
add_process_stopped(map, p, service_name, project_name) ==
    MapInsert(map, p, ProcessInfo(p, service_name, project_name, "Stopped"))

\* ProcessState::add_process, the in-memory part
add_process(map, p, service_name, project_name) ==
    MapInsert(map, p, ProcessInfo(p, service_name, project_name, "Running"))

\* a variant of remove_process that, finding no record of p, drops the
\* record of the least PID
remove_process_some(map, p) ==
    IF p \in DOMAIN map \/ DOMAIN map = {} THEN MapRemove(map, p)
    ELSE MapRemove(map, CHOOSE q \in DOMAIN map : \A r \in DOMAIN map : q <= r)

\* a variant of remove_process that leaves the map as it is
remove_process_nothing(map, p) == map

\* ProcessState::remove_process, the in-memory part
remove_process(map, p) == MapRemove(map, p)

\* the record of pid p goes (removed, or replaced by another process's):
\* every other invocation in flight has lost it
Losing(t, p) ==
    [u \in Tasks |->
        IF u # t /\ pc[u] # "idle" /\ p \in DOMAIN registry
        THEN lost[u] \cup {p} ELSE lost[u]]

\* ProcessState::is_service_running(project, service)
is_service_running(map, project_name, service_name) ==
    \E p \in DOMAIN map :
        /\ map[p].status = "Running"
        /\ map[p].project_name = project_name
        /\ map[p].service_name = service_name

\* a variant of get_running_services that may miss records (a read that is
\* not atomic)
RunningServicesOrdersTorn(map) ==
    {[i \in DOMAIN o |-> map[o[i]]]
       : o \in UNION {Orderings(S) : S \in SUBSET DOMAIN map}}

\* ProcessManager::get_running_services: the values of the HashMap, in the
\* order its iterator yields them, which is arbitrary
RunningServicesOrders(map) ==
    {[i \in DOMAIN o |-> map[o[i]]] : o \in Orderings(DOMAIN map)}

----------------------------------------------------------------------------
(* The operating system *)

\* an invocation that has returned is observed by its caller, and its task's
\* locals are dropped, before anything else moves
Returned == \E t \in Tasks : pc[t] = "done"

\* task t is at `where` in its command
At(t, where) == pc[t] = where /\ ~Returned

\* PIDs a spawn may return: one that names no live process. PIDs are
\* interchangeable apart from whether the registry still holds a record of
\* an earlier process of that PID, so the least PID of each kind stands
\* for its kind.
Least(S) == CHOOSE p \in S : \A q \in S : p <= q

SpawnablePids ==
    LET free == PIDs \ alive
        stale == free \cap DOMAIN registry
        fresh == free \ DOMAIN registry
    IN  (IF stale = {} THEN {} ELSE {Least(stale)})
        \cup (IF fresh = {} THEN {} ELSE {Least(fresh)})

\* a variant in which the record of a process that exits is reaped
ProcExitReaps(p) ==
    /\ ~Returned
    /\ p \in alive
    /\ alive' = alive \ {p}
    /\ registry' = remove_process(registry, p)
    /\ UNCHANGED <<lost, lock, pc, args, queue, idx, dep, projq, polls,
                   result, log, runs, sortIn, sortOut, call, ret, disk>>

\* a tracked or untracked process exits (on its own or after a signal)
ProcExit(p) ==
    /\ ~Returned
    /\ p \in alive
    /\ alive' = alive \ {p}
    /\ UNCHANGED <<registry, lost, lock, pc, args, queue, idx, dep, projq, polls,
                   result, log, runs, sortIn, sortOut, call, ret, disk>>

----------------------------------------------------------------------------
(* Invocations *)

\* the command lines a task may be given: "t1" any start or stop and a
\* status with or without --errors, "t2" (a second terminal) a stop of
\* project "shop"
Commands(t) ==
    IF t = "t1" THEN StartInvocations \cup StopInvocations
                     \cup {StatusArgs(None, e) : e \in BOOLEAN}
    ELSE {StopArgs(Some("shop"), FALSE, f, FALSE, None, None) : f \in BOOLEAN}

\* a command line is handed to task t
Invoke(t, a) ==
    /\ At(t, "idle")
    /\ runs < MaxRuns
    /\ runs' = runs + 1
    /\ args' = [args EXCEPT ![t] = a]
    /\ pc' = [pc EXCEPT ![t] = "execute"]
    /\ UNCHANGED <<registry, lost, lock, alive, queue, idx, dep, projq, polls, result,
                   log, sortIn, sortOut, call, ret, disk>>

\* the caller has the result of t's invocation; the task's locals are dropped
Forget(t) ==
    /\ pc[t] = "done"
    /\ pc' = [pc EXCEPT ![t] = "idle"]
    /\ args' = [args EXCEPT ![t] = NoArgs]
    /\ queue' = [queue EXCEPT ![t] = <<>>]
    /\ idx' = [idx EXCEPT ![t] = 1]
    /\ dep' = [dep EXCEPT ![t] = 1]
    /\ projq' = [projq EXCEPT ![t] = <<>>]
    /\ polls' = [polls EXCEPT ![t] = 0]
    /\ result' = [result EXCEPT ![t] = NoResult]
    /\ log' = [log EXCEPT ![t] = <<>>]
    /\ lost' = [lost EXCEPT ![t] = {}]
    /\ UNCHANGED <<registry, lock, alive, runs, sortIn, sortOut, call, ret, disk>>

\* a variant of the return that leaks the MutexGuard
ReturnLeaksGuard(t, r) ==
    /\ pc' = [pc EXCEPT ![t] = "done"]
    /\ result' = [result EXCEPT ![t] = r]
    /\ lock' = lock

\* execute() returns r; a MutexGuard the task holds is dropped
Return(t, r) ==
    /\ pc' = [pc EXCEPT ![t] = "done"]
    /\ result' = [result EXCEPT ![t] = r]
    /\ lock' = IF lock = t THEN NoTask ELSE lock

----------------------------------------------------------------------------
(* start *)

\* a variant that accepts --only together with --skip
validate_args_lenient(a) ==
    /\ IsSome(a.only) => "" \notin Unwrap(a.only)
    /\ IsSome(a.skip) => "" \notin Unwrap(a.skip)

\* StartArgs::validate_args
validate_args(a) ==
    /\ ~(IsSome(a.only) /\ IsSome(a.skip))
    /\ IsSome(a.only) => "" \notin Unwrap(a.only)
    /\ IsSome(a.skip) => "" \notin Unwrap(a.skip)

\* a variant of should_start_service that does not look at --skip
should_start_service_ignores_skip(a, service) ==
    IsSome(a.only) => service.name \in Unwrap(a.only)

\* StartArgs::should_start_service
should_start_service(a, service) ==
    /\ IsSome(a.only) => service.name \in Unwrap(a.only)
    /\ IsSome(a.skip) => service.name \notin Unwrap(a.skip)

\* services_to_start of start_in_background: the filtered list, in input order
services_to_start(a) ==
    SelectSeq(ProjectServices(a.name), LAMBDA s : should_start_service(a, s))

\* a variant of execute that falls through to the foreground path
AfterBackgroundFallsThrough(t) ==
    /\ pc' = [pc EXCEPT ![t] = "fg_lock"]
    /\ lock' = IF lock = t THEN NoTask ELSE lock
    /\ UNCHANGED result

\* execute: `return self.start_in_background(project).await`
AfterBackground(t) == Return(t, Ok)

\* StartArgs::execute up to the choice of the path
StartExecute(t) ==
    /\ At(t, "execute")
    /\ args[t].kind = "start"
    /\ LET a == args[t] IN
       IF ~validate_args(a)
       THEN /\ Return(t, Err("ConfigError", "", 0))
            /\ UNCHANGED <<queue, log>>
       ELSE IF a.name \notin Projects
       THEN /\ Return(t, Err("ConfigError", "", 0))
            /\ UNCHANGED <<queue, log>>
       ELSE IF a.dry_run
       THEN /\ Return(t, Ok)
            /\ UNCHANGED <<queue, log>>
       ELSE IF a.background
       THEN /\ queue' = [queue EXCEPT ![t] = services_to_start(a)]
            /\ log' = [log EXCEPT ![t] = Append(@, Ev("background", "", 0))]
            /\ IF services_to_start(a) = <<>>
               THEN AfterBackground(t)
               ELSE /\ pc' = [pc EXCEPT ![t] = "bg_lock"]
                    /\ UNCHANGED <<result, lock>>
       ELSE /\ pc' = [pc EXCEPT ![t] = "fg_lock"]
            /\ UNCHANGED <<queue, result, lock, log>>
    /\ UNCHANGED <<registry, lost, alive, args, idx, dep, projq, polls, runs,
                   sortIn, sortOut, call, ret, disk>>

\* get_global_state() of the foreground path, then the sort of start_services
FgLock(t) ==
    /\ At(t, "fg_lock")
    /\ lock = NoTask
    /\ lock' = t
    /\ queue' = [queue EXCEPT ![t] =
                    sort_services_by_dependencies(ProjectServices(args[t].name))]
    /\ idx' = [idx EXCEPT ![t] = 1]
    /\ dep' = [dep EXCEPT ![t] = 1]
    /\ pc' = [pc EXCEPT ![t] = "fg_next"]
    /\ log' = [log EXCEPT ![t] = Append(@, Ev("foreground", "", 0))]
    /\ UNCHANGED <<registry, lost, alive, args, projq, polls, result, runs,
                   sortIn, sortOut, call, ret, disk>>

\* wait_for_dependencies from dependency k on: the first one that is not
\* running (the place of the next sleep), or past the end of the list
FirstNotRunning(map, project_name, dependencies, k) ==
    LET waits == {j \in k..Len(dependencies) :
                     ~is_service_running(map, project_name, dependencies[j])}
    IN  IF waits = {} THEN Len(dependencies) + 1
        ELSE CHOOSE j \in waits : \A i \in waits : j <= i

\* start_services: `for service in sorted_services`, the filter, and
\* wait_for_dependencies up to its next sleep
FgNext(t) ==
    /\ At(t, "fg_next")
    /\ IF idx[t] > Len(queue[t])
       THEN /\ Return(t, Ok)
            /\ UNCHANGED <<idx, dep>>
       ELSE IF ~should_start_service(args[t], queue[t][idx[t]])
       THEN /\ idx' = [idx EXCEPT ![t] = @ + 1]
            /\ UNCHANGED <<pc, result, lock, dep>>
       ELSE LET dependencies == queue[t][idx[t]].dependencies
                k == FirstNotRunning(registry, args[t].name, dependencies, dep[t])
            IN  /\ dep' = [dep EXCEPT ![t] = k]
                /\ pc' = [pc EXCEPT ![t] =
                             IF k > Len(dependencies) THEN "fg_spawn" ELSE "fg_dep_sleep"]
                /\ UNCHANGED <<idx, result, lock>>
    /\ UNCHANGED <<registry, lost, alive, args, queue, projq, polls, log, runs,
                   sortIn, sortOut, call, ret, disk>>

\* wait_for_dependencies: the one-second sleep is over; on to the next
\* dependency, the one slept for is not looked at again
FgDepSleep(t) ==
    /\ At(t, "fg_dep_sleep")
    /\ dep' = [dep EXCEPT ![t] = @ + 1]
    /\ pc' = [pc EXCEPT ![t] = "fg_next"]
    /\ UNCHANGED <<registry, lost, lock, alive, args, queue, idx, projq, polls, result,
                   log, runs, sortIn, sortOut, call, ret, disk>>

\* wait_for_health_check sleeps for "http", and for "port" with a port given
HealthGateSleeps(service) ==
    /\ IsSome(service.health_check)
    /\ LET hc == Unwrap(service.health_check) IN
       \/ hc.type_entry = "http"
       \/ hc.type_entry = "port" /\ IsSome(hc.port)

\* wait_for_health_check of a gate that does not sleep ("port" without a
\* port, or a type it does not recognize): "Health check passed" right away
HealthGatePassedAtOnce(service, p) ==
    IF IsSome(service.health_check) /\ ~HealthGateSleeps(service)
    THEN <<Ev("health_passed", service.name, 0)>>
    ELSE <<>>

\* spawn_service_command, then process_state.add_process(..): the insert
\* and save_state. A failure of either ends the foreground run (`?`). No
\* await lies between the spawn and the insert, and the lock is held.
FgSpawn(t) ==
    /\ At(t, "fg_spawn")
    /\ LET service == queue[t][idx[t]] IN
       \/ /\ Return(t, Err("IoError", "", 0))
          /\ log' = [log EXCEPT ![t] = Append(@, Ev("spawn_failed", service.name, 0))]
          /\ UNCHANGED <<alive, registry, lost, idx, dep>>
       \/ \E p \in SpawnablePids :
             /\ alive' = alive \cup {p}
             /\ registry' = add_process(registry, p, service.name, args[t].name)
             /\ lost' = Losing(t, p)
             /\ \/ /\ log' = [log EXCEPT ![t] =
                                 @ \o <<Ev("spawn", service.name, p),
                                        Ev("add", service.name, p)>>
                                   \o HealthGatePassedAtOnce(service, p)]
                   /\ IF HealthGateSleeps(service)
                      THEN /\ pc' = [pc EXCEPT ![t] = "fg_health_wait"]
                           /\ UNCHANGED <<idx, dep>>
                      ELSE /\ pc' = [pc EXCEPT ![t] = "fg_next"]
                           /\ idx' = [idx EXCEPT ![t] = @ + 1]
                           /\ dep' = [dep EXCEPT ![t] = 1]
                   /\ UNCHANGED <<result, lock>>
                \/ /\ log' = [log EXCEPT ![t] =
                                 @ \o <<Ev("spawn", service.name, p),
                                        Ev("add_unsaved", service.name, p)>>]
                   /\ Return(t, Err("StateError", service.name, p))
                   /\ UNCHANGED <<idx, dep>>
    /\ UNCHANGED <<args, queue, projq, polls, runs, sortIn, sortOut, call, ret, disk>>

\* the health gate's fixed sleep is over: Ok(()), and the next service
FgHealthWait(t) ==
    /\ At(t, "fg_health_wait")
    /\ pc' = [pc EXCEPT ![t] = "fg_next"]
    /\ log' = [log EXCEPT ![t] =
                  Append(@, Ev("health_passed", queue[t][idx[t]].name, 0))]
    /\ idx' = [idx EXCEPT ![t] = @ + 1]
    /\ dep' = [dep EXCEPT ![t] = 1]
    /\ UNCHANGED <<registry, lost, lock, alive, args, queue, projq, polls, result,
                   runs, sortIn, sortOut, call, ret, disk>>

\* start_in_background: get_global_state(), held for the whole loop
BgLock(t) ==
    /\ At(t, "bg_lock")
    /\ lock = NoTask
    /\ lock' = t
    /\ idx' = [idx EXCEPT ![t] = 1]
    /\ pc' = [pc EXCEPT ![t] = "bg_spawn"]
    /\ UNCHANGED <<registry, lost, alive, args, queue, dep, projq, polls, result, log,
                   runs, sortIn, sortOut, call, ret, disk>>

\* spawn_service_command and add_process on the background path: a failed
\* spawn is printed; when add_process fails the child is sent `kill`; in
\* every case the loop goes on to the delay
BgSpawn(t) ==
    /\ At(t, "bg_spawn")
    /\ LET service == queue[t][idx[t]] IN
       \/ /\ log' = [log EXCEPT ![t] = Append(@, Ev("spawn_failed", service.name, 0))]
          /\ UNCHANGED <<alive, registry, lost>>
       \/ \E p \in SpawnablePids :
             /\ alive' = alive \cup {p}
             /\ registry' = add_process(registry, p, service.name, args[t].name)
             /\ lost' = Losing(t, p)
             /\ \/ log' = [log EXCEPT ![t] =
                              @ \o <<Ev("spawn", service.name, p),
                                     Ev("add", service.name, p)>>]
                \/ log' = [log EXCEPT ![t] =
                              @ \o <<Ev("spawn", service.name, p),
                                     Ev("add_unsaved", service.name, p),
                                     Ev("TERM", service.name, p)>>]
    /\ pc' = [pc EXCEPT ![t] = "bg_delay"]
    /\ UNCHANGED <<lock, args, queue, idx, dep, projq, polls, result, runs,
                   sortIn, sortOut, call, ret, disk>>

\* the 300 ms sleep between services is over; after the last one the run ends
BgDelay(t) ==
    /\ At(t, "bg_delay")
    /\ idx' = [idx EXCEPT ![t] = @ + 1]
    /\ IF idx[t] + 1 > Len(queue[t])
       THEN AfterBackground(t)
       ELSE /\ pc' = [pc EXCEPT ![t] = "bg_spawn"]
            /\ UNCHANGED <<result, lock>>
    /\ UNCHANGED <<registry, lost, alive, args, queue, dep, projq, polls, log, runs,
                   sortIn, sortOut, call, ret, disk>>

----------------------------------------------------------------------------
(* stop *)

\* StopArgs::validate_args
stop_validate_args(a) ==
    /\ ~(a.all /\ IsSome(a.project_name))
    /\ ~(IsSome(a.only) /\ IsSome(a.skip))

\* StopArgs::should_stop_service
should_stop_service(a, info) ==
    /\ IsSome(a.only) => info.service_name \in Unwrap(a.only)
    /\ IsSome(a.skip) => info.service_name \notin Unwrap(a.skip)

\* get_services_for_project: the snapshot, filtered by project name
ServicesForProject(snapshot, project_name) ==
    SelectSeq(snapshot, LAMBDA info : info.project_name = project_name)

\* sort_services_for_shutdown: the list reversed
sort_services_for_shutdown(services) == Reverse(services)

\* the project a stop run is working on
CurrentProject(t) ==
    IF args[t].all THEN Head(projq[t]) ELSE Unwrap(args[t].project_name)

\* StopArgs::execute up to the choice of the path
StopExecute(t) ==
    /\ At(t, "execute")
    /\ args[t].kind = "stop"
    /\ LET a == args[t] IN
       IF ~stop_validate_args(a)
       THEN Return(t, Err("ConfigError", "", 0))
       ELSE IF a.dry_run
       THEN /\ pc' = [pc EXCEPT ![t] = "stop_dry_run"]
            /\ UNCHANGED <<result, lock>>
       ELSE IF a.all
       THEN /\ pc' = [pc EXCEPT ![t] = "stop_all"]
            /\ UNCHANGED <<result, lock>>
       ELSE IF IsSome(a.project_name)
       THEN /\ pc' = [pc EXCEPT ![t] = "stop_project"]
            /\ UNCHANGED <<result, lock>>
       ELSE Return(t, Err("ConfigError", "", 0))
    /\ UNCHANGED <<registry, lost, alive, args, queue, idx, dep, projq, polls, log,
                   runs, sortIn, sortOut, call, ret, disk>>

\* a variant of the dry run that goes on to stop what it listed
StopDryRunGoesAhead(t) ==
    /\ At(t, "stop_dry_run")
    /\ lock = NoTask
    /\ pc' = [pc EXCEPT ![t] = IF args[t].all THEN "stop_all" ELSE "stop_project"]
    /\ UNCHANGED <<registry, lost, lock, alive, args, queue, idx, dep, projq, polls,
                   result, log, runs, sortIn, sortOut, call, ret, disk>>

\* dry_run_execute: reads the registry (under the lock) and prints
StopDryRun(t) ==
    /\ At(t, "stop_dry_run")
    /\ lock = NoTask
    /\ Return(t, Ok)
    /\ UNCHANGED <<registry, lost, alive, args, queue, idx, dep, projq, polls, log,
                   runs, sortIn, sortOut, call, ret, disk>>

\* stop_all_projects: the distinct project names of a snapshot, a HashSet
StopAll(t) ==
    /\ At(t, "stop_all")
    /\ lock = NoTask
    /\ LET projects == {registry[p].project_name : p \in DOMAIN registry} IN
       IF projects = {}
       THEN /\ Return(t, Ok)
            /\ UNCHANGED projq
       ELSE /\ \E order \in Orderings(projects) :
                  projq' = [projq EXCEPT ![t] = order]
            /\ pc' = [pc EXCEPT ![t] = "stop_project"]
            /\ UNCHANGED <<result, lock>>
    /\ UNCHANGED <<registry, lost, alive, args, queue, idx, dep, polls, log, runs,
                   sortIn, sortOut, call, ret, disk>>

\* stop_single_project returned Ok: the next project of --all, or the end
ProjectStopped(t) ==
    IF args[t].all /\ Len(projq[t]) > 1
    THEN /\ projq' = [projq EXCEPT ![t] = Tail(@)]
         /\ pc' = [pc EXCEPT ![t] = "stop_project"]
         /\ UNCHANGED <<result, lock>>
    ELSE /\ Return(t, Ok)
         /\ UNCHANGED projq

\* stop_single_project: snapshot, filter, reverse
StopProject(t) ==
    /\ At(t, "stop_project")
    /\ lock = NoTask
    /\ \E snapshot \in RunningServicesOrders(registry) :
          LET services == ServicesForProject(snapshot, CurrentProject(t))
              services_to_stop ==
                  SelectSeq(services, LAMBDA i : should_stop_service(args[t], i))
          IN  IF services_to_stop = <<>>
              THEN /\ ProjectStopped(t)
                   /\ UNCHANGED <<queue, idx>>
              ELSE /\ queue' = [queue EXCEPT ![t] =
                                   sort_services_for_shutdown(services_to_stop)]
                   /\ idx' = [idx EXCEPT ![t] = 1]
                   /\ pc' = [pc EXCEPT ![t] = "stop_term"]
                   /\ UNCHANGED <<result, lock, projq>>
    /\ UNCHANGED <<registry, lost, alive, args, dep, polls, log, runs, sortIn, sortOut, call, ret, disk>>

\* a variant of the Err(e) arm that goes on to the next service
GracefulStopFailedGoesOn(t) ==
    /\ UNCHANGED <<registry, lost>>
    /\ IF args[t].force
       THEN /\ pc' = [pc EXCEPT ![t] = "stop_kill"]
            /\ UNCHANGED <<idx, projq, result, lock>>
       ELSE /\ idx' = [idx EXCEPT ![t] = @ + 1]
            /\ IF idx[t] + 1 > Len(queue[t])
               THEN ProjectStopped(t)
               ELSE /\ pc' = [pc EXCEPT ![t] = "stop_term"]
                    /\ UNCHANGED <<projq, result, lock>>

\* a variant of the Err(e) arm that deregisters the service it gives up on
GracefulStopFailedDeregisters(t) ==
    /\ UNCHANGED <<idx, projq>>
    /\ IF args[t].force
       THEN /\ pc' = [pc EXCEPT ![t] = "stop_kill"]
            /\ UNCHANGED <<result, lock, registry, lost>>
       ELSE /\ Return(t, Err("ProcessError", queue[t][idx[t]].service_name,
                             queue[t][idx[t]].pid))
            /\ registry' = remove_process(registry, queue[t][idx[t]].pid)
            /\ lost' = Losing(t, queue[t][idx[t]].pid)

\* a variant of the Err(e) arm after which --all carries on with the next
\* project
GracefulStopFailedNextProject(t) ==
    /\ UNCHANGED <<registry, lost, idx>>
    /\ IF args[t].force
       THEN /\ pc' = [pc EXCEPT ![t] = "stop_kill"]
            /\ UNCHANGED <<result, lock, projq>>
       ELSE IF args[t].all /\ Len(projq[t]) > 1
       THEN /\ projq' = [projq EXCEPT ![t] = Tail(@)]
            /\ pc' = [pc EXCEPT ![t] = "stop_project"]
            /\ UNCHANGED <<result, lock>>
       ELSE /\ Return(t, Err("ProcessError", queue[t][idx[t]].service_name,
                             queue[t][idx[t]].pid))
            /\ UNCHANGED projq

\* stop_services_gracefully, Err(e) arm: escalate with --force, else give up
\* with "Failed to stop service {name}: {e}", e naming the PID
GracefulStopFailed(t) ==
    /\ UNCHANGED <<registry, lost, idx, projq>>
    /\ IF args[t].force
       THEN /\ pc' = [pc EXCEPT ![t] = "stop_kill"]
            /\ UNCHANGED <<result, lock>>
       ELSE Return(t, Err("ProcessError", queue[t][idx[t]].service_name,
                          queue[t][idx[t]].pid))

\* stop_single_service: stop_process(pid), i.e. `kill pid`
StopTerm(t) ==
    /\ At(t, "stop_term")
    /\ LET info == queue[t][idx[t]] IN
       IF info.pid \in alive
       THEN /\ log' = [log EXCEPT ![t] = Append(@, Ev("TERM", info.service_name, info.pid))]
            /\ polls' = [polls EXCEPT ![t] = 0]
            /\ pc' = [pc EXCEPT ![t] = "stop_poll"]
            /\ UNCHANGED <<result, lock, registry, lost, idx, projq>>
       ELSE /\ log' = [log EXCEPT ![t] =
                          Append(@, Ev("TERM_failed", info.service_name, info.pid))]
            /\ GracefulStopFailed(t)
            /\ UNCHANGED polls
    /\ UNCHANGED <<alive, args, queue, dep, runs, sortIn, sortOut, call, ret, disk>>

\* a variant whose Ok arm goes on to the next service without
\* remove_process
StopPollSkipsRemoval(t) ==
    /\ At(t, "stop_poll")
    /\ LET info == queue[t][idx[t]] IN
       IF polls[t] >= TimeoutPolls
       THEN /\ log' = [log EXCEPT ![t] =
                          Append(@, Ev("timeout", info.service_name, info.pid))]
            /\ GracefulStopFailed(t)
            /\ UNCHANGED polls
       ELSE IF info.pid \notin alive
       THEN /\ idx' = [idx EXCEPT ![t] = @ + 1]
            /\ IF idx[t] + 1 > Len(queue[t])
               THEN ProjectStopped(t)
               ELSE /\ pc' = [pc EXCEPT ![t] = "stop_term"]
                    /\ UNCHANGED <<result, lock, projq>>
            /\ UNCHANGED <<polls, log, registry, lost>>
       ELSE /\ polls' = [polls EXCEPT ![t] = @ + 1]
            /\ UNCHANGED <<pc, result, lock, log, registry, lost, idx, projq>>
    /\ UNCHANGED <<alive, args, queue, dep, runs, sortIn, sortOut, call, ret, disk>>

\* stop_single_service: one turn of `while start_time.elapsed() < timeout`
StopPoll(t) ==
    /\ At(t, "stop_poll")
    /\ LET info == queue[t][idx[t]] IN
       IF polls[t] >= TimeoutPolls
       THEN /\ log' = [log EXCEPT ![t] =
                          Append(@, Ev("timeout", info.service_name, info.pid))]
            /\ GracefulStopFailed(t)
            /\ UNCHANGED polls
       ELSE IF info.pid \notin alive
       THEN /\ pc' = [pc EXCEPT ![t] = "stop_remove"]
            /\ UNCHANGED <<result, lock, polls, log, registry, lost, idx, projq>>
       ELSE /\ polls' = [polls EXCEPT ![t] = @ + 1]
            /\ UNCHANGED <<pc, result, lock, log, registry, lost, idx, projq>>
    /\ UNCHANGED <<alive, args, queue, dep, runs, sortIn, sortOut, call, ret, disk>>

\* force_stop_service: kill_process(pid), i.e. `kill -9 pid`; its failure
\* is returned as it is ("kill -9 command failed for PID {}")
StopKill(t) ==
    /\ At(t, "stop_kill")
    /\ LET info == queue[t][idx[t]] IN
       IF info.pid \in alive
       THEN /\ log' = [log EXCEPT ![t] = Append(@, Ev("KILL", info.service_name, info.pid))]
            /\ pc' = [pc EXCEPT ![t] = "stop_kill_wait"]
            /\ UNCHANGED <<result, lock>>
       ELSE /\ log' = [log EXCEPT ![t] =
                          Append(@, Ev("KILL_failed", info.service_name, info.pid))]
            /\ Return(t, Err("ProcessError", "", info.pid))
    /\ UNCHANGED <<registry, lost, alive, args, queue, idx, dep, projq, polls, runs,
                   sortIn, sortOut, call, ret, disk>>

\* force_stop_service: after the 500 ms sleep, is the process still there?
StopKillWait(t) ==
    /\ At(t, "stop_kill_wait")
    /\ LET info == queue[t][idx[t]] IN
       IF info.pid \in alive
       THEN /\ Return(t, Err("ProcessError", info.service_name, info.pid))
            /\ log' = [log EXCEPT ![t] =
                          Append(@, Ev("force_failed", info.service_name, info.pid))]
       ELSE /\ pc' = [pc EXCEPT ![t] = "stop_remove"]
            /\ UNCHANGED <<result, lock, log>>
    /\ UNCHANGED <<registry, lost, alive, args, queue, idx, dep, projq, polls, runs,
                   sortIn, sortOut, call, ret, disk>>

\* a variant that goes on to the next service with the record left in place
StopRemoveKeepsRecord(t) ==
    /\ At(t, "stop_remove")
    /\ lock = NoTask
    /\ UNCHANGED <<registry, lost>>
    /\ log' = [log EXCEPT ![t] =
                  Append(@, Ev("remove", queue[t][idx[t]].service_name,
                               queue[t][idx[t]].pid))]
    /\ idx' = [idx EXCEPT ![t] = @ + 1]
    /\ IF idx[t] + 1 > Len(queue[t])
       THEN ProjectStopped(t)
       ELSE /\ pc' = [pc EXCEPT ![t] = "stop_term"]
            /\ UNCHANGED <<result, lock, projq>>
    /\ UNCHANGED <<alive, args, queue, dep, polls, runs, sortIn, sortOut, call, ret, disk>>

\* a variant that keeps the record and marks it Stopped
StopRemoveMarksStopped(t) ==
    /\ At(t, "stop_remove")
    /\ lock = NoTask
    /\ registry' = [p \in DOMAIN registry |->
                       IF p = queue[t][idx[t]].pid
                       THEN [registry[p] EXCEPT !.status = "Stopped"]
                       ELSE registry[p]]
    /\ UNCHANGED lost
    /\ log' = [log EXCEPT ![t] =
                  Append(@, Ev("remove", queue[t][idx[t]].service_name,
                               queue[t][idx[t]].pid))]
    /\ idx' = [idx EXCEPT ![t] = @ + 1]
    /\ IF idx[t] + 1 > Len(queue[t])
       THEN ProjectStopped(t)
       ELSE /\ pc' = [pc EXCEPT ![t] = "stop_term"]
            /\ UNCHANGED <<result, lock, projq>>
    /\ UNCHANGED <<alive, args, queue, dep, polls, runs, sortIn, sortOut, call, ret, disk>>

\* stop_services_gracefully: self.remove_process(service.pid), which takes
\* the lock for the removal, then the next service
StopRemove(t) ==
    /\ At(t, "stop_remove")
    /\ lock = NoTask
    /\ registry' = remove_process(registry, queue[t][idx[t]].pid)
    /\ lost' = Losing(t, queue[t][idx[t]].pid)
    /\ log' = [log EXCEPT ![t] =
                  Append(@, Ev("remove", queue[t][idx[t]].service_name,
                               queue[t][idx[t]].pid))]
    /\ idx' = [idx EXCEPT ![t] = @ + 1]
    /\ IF idx[t] + 1 > Len(queue[t])
       THEN ProjectStopped(t)
       ELSE /\ pc' = [pc EXCEPT ![t] = "stop_term"]
            /\ UNCHANGED <<result, lock, projq>>
    /\ UNCHANGED <<alive, args, queue, dep, polls, runs, sortIn, sortOut, call, ret, disk>>

----------------------------------------------------------------------------
(* StatusArgs::execute, as an invocation among the others *)

\* show_current_state: get_running_services() locks GLOBAL_STATE, copies the
\* records out and unlocks; the rest only prints
StatusExecute(t) ==
    /\ At(t, "execute")
    /\ args[t].kind = "status"
    /\ lock = NoTask
    /\ Return(t, Ok)
    /\ UNCHANGED <<registry, lost, alive, args, queue, idx, dep, projq, polls, log,
                   runs, sortIn, sortOut, call, ret, disk>>

----------------------------------------------------------------------------
(* The supervisor: concurrent invocations over one registry *)

Init ==
    /\ registry = <<>>
    /\ lock = NoTask
    /\ alive = {}
    /\ pc = [t \in Tasks |-> "idle"]
    /\ args = [t \in Tasks |-> NoArgs]
    /\ queue = [t \in Tasks |-> <<>>]
    /\ idx = [t \in Tasks |-> 1]
    /\ dep = [t \in Tasks |-> 1]
    /\ projq = [t \in Tasks |-> <<>>]
    /\ polls = [t \in Tasks |-> 0]
    /\ result = [t \in Tasks |-> NoResult]
    /\ log = [t \in Tasks |-> <<>>]
    /\ lost = [t \in Tasks |-> {}]
    /\ runs = 0
    /\ sortIn = <<>>
    /\ sortOut = <<>>
    /\ call = NoCall
    /\ ret = NoCall
    /\ disk = None

Next ==
    \/ \E t \in Tasks : \E a \in Commands(t) : Invoke(t, a)
    \/ \E t \in Tasks : Forget(t)
    \/ \E t \in Tasks : StartExecute(t)
    \/ \E t \in Tasks : FgLock(t)
    \/ \E t \in Tasks : FgNext(t)
    \/ \E t \in Tasks : FgDepSleep(t)
    \/ \E t \in Tasks : FgSpawn(t)
    \/ \E t \in Tasks : FgHealthWait(t)
    \/ \E t \in Tasks : BgLock(t)
    \/ \E t \in Tasks : BgSpawn(t)
    \/ \E t \in Tasks : BgDelay(t)
    \/ \E t \in Tasks : StopExecute(t)
    \/ \E t \in Tasks : StopDryRun(t)
    \/ \E t \in Tasks : StopAll(t)
    \/ \E t \in Tasks : StopProject(t)
    \/ \E t \in Tasks : StopTerm(t)
    \/ \E t \in Tasks : StopPoll(t)
    \/ \E t \in Tasks : StopKill(t)
    \/ \E t \in Tasks : StopKillWait(t)
    \/ \E t \in Tasks : StopRemove(t)
    \/ \E t \in Tasks : StatusExecute(t)
    \/ \E p \in PIDs : ProcExit(p)

Spec == Init /\ [][Next]_vars

----------------------------------------------------------------------------
(* The resolver on its own: every input list within the bounds *)

SortNames == <<"web", "api", "db">>

\* names a dependency list may hold; "cache" names no service of the list
DepNames == Range(SortNames) \cup {"cache"}

DepLists ==
    UNION {{d \in [1..n -> DepNames] : \A i, j \in 1..n : i # j => d[i] # d[j]}
           : n \in 0..MaxDeps}

SortInputs ==
    {[i \in DOMAIN SortNames |-> Service(SortNames[i], deps[i], None)]
     : deps \in [DOMAIN SortNames -> DepLists]}

InitSort ==
    /\ registry = <<>>
    /\ lock = NoTask
    /\ alive = {}
    /\ pc = [t \in Tasks |-> "idle"]
    /\ args = [t \in Tasks |-> NoArgs]
    /\ queue = [t \in Tasks |-> <<>>]
    /\ idx = [t \in Tasks |-> 1]
    /\ dep = [t \in Tasks |-> 1]
    /\ projq = [t \in Tasks |-> <<>>]
    /\ polls = [t \in Tasks |-> 0]
    /\ result = [t \in Tasks |-> NoResult]
    /\ log = [t \in Tasks |-> <<>>]
    /\ lost = [t \in Tasks |-> {}]
    /\ runs = 0
    /\ sortIn \in SortInputs
    /\ sortOut = <<>>
    /\ call = NoCall
    /\ ret = NoCall
    /\ disk = None

\* the resolver is applied to the input
Resolve ==
    /\ sortOut = <<>>
    /\ sortOut' = sort_services_by_dependencies(sortIn)
    /\ UNCHANGED <<registry, lost, lock, alive, pc, args, queue, idx, dep, projq, polls,
                   result, log, runs, sortIn, call, ret, disk>>

NextSort == Resolve

SpecSort == InitSort /\ [][NextSort]_vars

\* the call, once made, runs to its end: nothing else can hold it up
SpecSortLive == SpecSort /\ WF_vars(NextSort)

----------------------------------------------------------------------------
(* The start plan on its own: what a dry run lists, what a start processes *)

\* the tasks and processes of the supervisor, at rest
AtRest ==
    /\ lock = NoTask
    /\ alive = {}
    /\ pc = [t \in Tasks |-> "idle"]
    /\ args = [t \in Tasks |-> NoArgs]
    /\ queue = [t \in Tasks |-> <<>>]
    /\ idx = [t \in Tasks |-> 1]
    /\ dep = [t \in Tasks |-> 1]
    /\ projq = [t \in Tasks |-> <<>>]
    /\ polls = [t \in Tasks |-> 0]
    /\ result = [t \in Tasks |-> NoResult]
    /\ log = [t \in Tasks |-> <<>>]
    /\ lost = [t \in Tasks |-> {}]
    /\ runs = 0

\* one line of a listing: the service and the START / SKIP decision
PlanLine(a, service) ==
    [name |-> service.name, start |-> should_start_service(a, service)]

\* StartArgs::dry_run: `for service in services`, the list as loaded
dry_run_listing(a, services) ==
    [i \in DOMAIN services |-> PlanLine(a, services[i])]

\* start_services: `for service in sorted_services`, with the filter
start_services_plan(a, services) ==
    LET sorted == sort_services_by_dependencies(services)
    IN  [i \in DOMAIN sorted |-> PlanLine(a, sorted[i])]

\* start_in_background: the filter over the list as loaded
start_in_background_plan(a, services) ==
    [i \in DOMAIN services |-> PlanLine(a, services[i])]

\* what a start with the options a goes through
start_plan(a, services) ==
    IF a.background THEN start_in_background_plan(a, services)
    ELSE start_services_plan(a, services)

\* a project's service list together with options validate_args accepts
PlanCalls ==
    {[op |-> "plan", services |-> s, a |-> a]
       : s \in SortInputs,
         a \in {x \in {StartArgs("shop", b, TRUE, o, k)
                          : b \in BOOLEAN, o \in FilterOpts, k \in FilterOpts}
                  : validate_args(x)}}

InitPlan ==
    /\ AtRest
    /\ registry = <<>>
    /\ sortIn = <<>>
    /\ sortOut = <<>>
    /\ call \in PlanCalls
    /\ ret = NoCall
    /\ disk = None

\* the dry run and the start proper are both applied to the call
Plan ==
    /\ call.op = "plan"
    /\ ret = NoCall
    /\ ret' = [op |-> "plan",
               listed |-> dry_run_listing(call.a, call.services),
               processed |-> start_plan([call.a EXCEPT !.dry_run = FALSE],
                                        call.services)]
    /\ UNCHANGED <<registry, lost, lock, alive, pc, args, queue, idx, dep, projq, polls,
                   result, log, runs, sortIn, sortOut, call, disk>>

NextPlan == Plan

SpecPlan == InitPlan /\ [][NextPlan]_vars

----------------------------------------------------------------------------
(* ProcessState on its own: any registry a state file can hold, and the
   operations of its interface applied to it *)

\* ProcessStatus as this harness loads it (Error(String) is never written)
Statuses == {"Running", "Stopped"}

\* HashMap<u32, ProcessInfo> as load_state may read it: any record per PID
Registries ==
    UNION {[S -> {"api", "db"} \X Projects \X Statuses] : S \in SUBSET PIDs}

LoadedRegistry(m) ==
    [p \in DOMAIN m |-> ProcessInfo(p, m[p][1], m[p][2], m[p][3])]

\* ProcessState::get_all_processes: self.processes.values().collect(), in
\* the iterator's order, whichever it is
get_all_processes(map) ==
    {[i \in DOMAIN o |-> map[o[i]]] : o \in Orderings(DOMAIN map)}

\* a variant of get_project_processes that does not look at the status
get_project_processes_any_status(map, project_name) ==
    {SelectSeq(all, LAMBDA info : info.project_name = project_name)
       : all \in get_all_processes(map)}

\* ProcessState::get_project_processes: values() filtered by project name
\* and matches!(status, Running)
get_project_processes(map, project_name) ==
    {SelectSeq(all, LAMBDA info : info.project_name = project_name
                                  /\ info.status = "Running")
       : all \in get_all_processes(map)}

\* ProcessManager::find_service: the first record of get_running_services
\* whose service_name matches, whatever its project and status
find_service(map, service_name) ==
    {IF \E i \in DOMAIN all : all[i].service_name = service_name
     THEN Some(all[CHOOSE i \in DOMAIN all :
                     /\ all[i].service_name = service_name
                     /\ \A j \in 1..(i - 1) : all[j].service_name # service_name])
     ELSE None
       : all \in RunningServicesOrders(map)}

\* ProcessManager::is_service_running(service_name): find_service(..).is_some()
ProcessManager_is_service_running(map, service_name) ==
    \E found \in find_service(map, service_name) : IsSome(found)

\* what add_process / remove_process return: Ok(()), or the error of save_state
Saved(op, p, saved) ==
    [op |-> op, pid |-> p, ok |-> saved,
     error |-> IF saved THEN "" ELSE "save_state"]

InitRegistry ==
    /\ AtRest
    /\ \E m \in Registries : registry = LoadedRegistry(m)
    /\ sortIn = <<>>
    /\ sortOut = <<>>
    /\ call = NoCall
    /\ ret = NoCall
    /\ disk = None

\* the variables the interface of ProcessState does not touch
RegistryFrame ==
    UNCHANGED <<lost, lock, alive, pc, args, queue, idx, dep, projq, polls,
                result, log, runs, sortIn, sortOut>>

\* (call.present: whether the map held a record of the PID when called; what
\* save_state leaves in the state file is followed by the instances below)
\* add_process(child, service_name, project_name, ..): insert, then
\* save_state()?, which may fail
RegAdd(p, service_name, project_name, saved) ==
    /\ registry' = add_process(registry, p, service_name, project_name)
    /\ call' = [op |-> "add_process", pid |-> p, service_name |-> service_name,
                project_name |-> project_name, present |-> p \in DOMAIN registry]
    /\ ret' = Saved("add_process", p, saved)
    /\ UNCHANGED disk
    /\ RegistryFrame

\* remove_process(pid): remove, then save_state()?, which may fail
RegRemove(p, saved) ==
    /\ registry' = remove_process(registry, p)
    /\ call' = [op |-> "remove_process", pid |-> p, service_name |-> "",
                project_name |-> "", present |-> p \in DOMAIN registry]
    /\ ret' = Saved("remove_process", p, saved)
    /\ UNCHANGED disk
    /\ RegistryFrame

RegGetAll ==
    /\ \E all \in get_all_processes(registry) :
          ret' = [op |-> "get_all_processes", value |-> all]
    /\ UNCHANGED <<registry, call, disk>>
    /\ RegistryFrame

RegGetProject(project_name) ==
    /\ \E found \in get_project_processes(registry, project_name) :
          ret' = [op |-> "get_project_processes", project_name |-> project_name,
                  value |-> found]
    /\ UNCHANGED <<registry, call, disk>>
    /\ RegistryFrame

\* the two queries of the same name: ProcessManager's, by service name, and
\* ProcessState's, by project and service name
RegIsServiceRunning(project_name, service_name) ==
    /\ ret' = [op |-> "is_service_running", project_name |-> project_name,
               service_name |-> service_name,
               manager |-> ProcessManager_is_service_running(registry, service_name),
               state |-> is_service_running(registry, project_name, service_name)]
    /\ UNCHANGED <<registry, call, disk>>
    /\ RegistryFrame

NextRegistry ==
    \/ \E p \in PIDs, s \in {"api", "db"}, pr \in Projects, saved \in BOOLEAN :
          RegAdd(p, s, pr, saved)
    \/ \E p \in PIDs, saved \in BOOLEAN : RegRemove(p, saved)
    \/ RegGetAll
    \/ \E pr \in Projects \cup {"ghost"} : RegGetProject(pr)
    \/ \E pr \in Projects, s \in {"api", "db"} : RegIsServiceRunning(pr, s)

SpecRegistry == InitRegistry /\ [][NextRegistry]_vars

----------------------------------------------------------------------------
(* ProcessState instances over one state file: each new instance replaces
   the one before it, as a new run of the tool does.  The interface harness
   above leaves the file out; here every save and load is followed. *)

\* load_state: the map is replaced by the file's content when the file exists
load_state(file, map) == IF IsSome(file) THEN Unwrap(file) ELSE map

\* ProcessState::new: an empty map, then load_state
ProcessState_new(file) == load_state(file, <<>>)

\* save_state: the whole map is written when the write succeeds
save_state(file, map, saved) == IF saved THEN Some(map) ELSE file

InitInstances ==
    /\ AtRest
    /\ disk = None
    /\ registry = ProcessState_new(disk)
    /\ sortIn = <<>>
    /\ sortOut = <<>>
    /\ call = NoCall
    /\ ret = NoCall

\* add_process(..): insert, then save_state()?
InstAdd(p, service_name, project_name, saved) ==
    /\ registry' = add_process(registry, p, service_name, project_name)
    /\ disk' = save_state(disk, registry', saved)
    /\ call' = [op |-> "add_process", pid |-> p, service_name |-> service_name,
                project_name |-> project_name, present |-> p \in DOMAIN registry]
    /\ ret' = Saved("add_process", p, saved)
    /\ RegistryFrame

\* a variant of remove_process that puts the record back when the write fails
InstRemoveRollsBack(p, saved) ==
    /\ registry' = IF saved THEN remove_process(registry, p) ELSE registry
    /\ disk' = save_state(disk, registry', saved)
    /\ call' = [op |-> "remove_process", pid |-> p, service_name |-> "",
                project_name |-> "", present |-> p \in DOMAIN registry]
    /\ ret' = Saved("remove_process", p, saved)
    /\ RegistryFrame

\* remove_process(pid): remove, then save_state()?
InstRemove(p, saved) ==
    /\ registry' = remove_process(registry, p)
    /\ disk' = save_state(disk, registry', saved)
    /\ call' = [op |-> "remove_process", pid |-> p, service_name |-> "",
                project_name |-> "", present |-> p \in DOMAIN registry]
    /\ ret' = Saved("remove_process", p, saved)
    /\ UNCHANGED disk
    /\ RegistryFrame

\* a new instance is constructed and takes the place of the earlier one
\* (ret.left: what the earlier instance held when it was dropped)
InstNew ==
    /\ registry' = ProcessState_new(disk)
    /\ call' = [op |-> "new"]
    /\ ret' = [op |-> "new", ok |-> TRUE, left |-> registry]
    /\ UNCHANGED disk
    /\ RegistryFrame

NextInstances ==
    \/ \E p \in PIDs, s \in {"api", "db"}, pr \in Projects, saved \in BOOLEAN :
          InstAdd(p, s, pr, saved)
    \/ \E p \in PIDs, saved \in BOOLEAN : InstRemove(p, saved)
    \/ InstNew

SpecInstances == InitInstances /\ [][NextInstances]_vars

----------------------------------------------------------------------------
(* StatusReader: `status` without --follow or --logs, on any registry *)

\* ProcessStatus; the text of Error(String) is only displayed and is left out
ProcessStatuses == {"Running", "Stopped", "Error"}

StatusRegistries ==
    UNION {[S -> {"api", "db"} \X Projects \X ProcessStatuses] : S \in SUBSET PIDs}

StatusInvocations ==
    {StatusArgs(pr, e) : pr \in {None} \cup {Some(n) : n \in Projects \cup {"ghost"}},
                         e \in BOOLEAN}

\* a variant of the classification that takes a stopped process for healthy
ServiceHealth_of_alive(status) ==
    IF status \in {"Running", "Stopped"} THEN "Healthy" ELSE "Unhealthy"

\* the `health` match of convert_to_live_state
ServiceHealth_of(status) ==
    IF status = "Running" THEN "Healthy" ELSE "Unhealthy"

\* StatusArgs::convert_to_live_state (the fields never filled in are left out)
convert_to_live_state(process_info) ==
    [name |-> process_info.service_name, project |-> process_info.project_name,
     pid |-> process_info.pid, status |-> process_info.status,
     health |-> ServiceHealth_of(process_info.status)]

\* the two filters of get_active_services: `continue` when either rejects
passes_filters(a, live_service) ==
    /\ IsSome(a.project_name) => live_service.project = Unwrap(a.project_name)
    /\ a.errors => live_service.health = "Unhealthy"

\* StatusArgs::get_active_services over the Vec get_running_services returned
get_active_services(a, real_services) ==
    SelectSeq([i \in DOMAIN real_services |-> convert_to_live_state(real_services[i])],
              LAMBDA live_service : passes_filters(a, live_service))

InitStatus ==
    /\ AtRest
    /\ \E m \in StatusRegistries : registry = LoadedRegistry(m)
    /\ sortIn = <<>>
    /\ sortOut = <<>>
    /\ call = NoCall
    /\ ret = NoCall
    /\ disk = None

\* show_current_state: get_active_services().await?, which is always
\* Ok(active_services)
ShowCurrentState(a) ==
    /\ call = NoCall
    /\ call' = [op |-> "status", a |-> a]
    /\ \E real_services \in RunningServicesOrders(registry) :
          ret' = [op |-> "status", ok |-> TRUE,
                  value |-> get_active_services(a, real_services)]
    /\ UNCHANGED <<registry, disk>>
    /\ RegistryFrame

NextStatus == \E a \in StatusInvocations : ShowCurrentState(a)

SpecStatus == InitStatus /\ [][NextStatus]_vars

----------------------------------------------------------------------------
(* The health gate on its own: wait_for_health_check on any health check *)

GateKinds == {"http", "port", "none", "grpc", "tcp"}

GatePorts == {None, Some(80), Some(5432), Some(8080)}

\* a variant in which a "port" check sleeps whether or not a port is given
health_check_sleep_any_port(health_check) ==
    IF health_check.type_entry = "http" THEN 2
    ELSE IF health_check.type_entry = "port" THEN 1
    ELSE 0

\* the seconds wait_for_health_check sleeps: wait_for_http_health_check two,
\* wait_for_port_health_check one when a port is given, anything else none
health_check_sleep(health_check) ==
    IF health_check.type_entry = "http" THEN 2
    ELSE IF health_check.type_entry = "port" /\ IsSome(health_check.port) THEN 1
    ELSE 0

GateCalls ==
    {[op |-> "wait_for_health_check", service |-> n, health_check |-> HealthCheck(k, p)]
       : n \in Range(SortNames), k \in GateKinds, p \in GatePorts}

InitGate ==
    /\ AtRest
    /\ registry = <<>>
    /\ sortIn = <<>>
    /\ sortOut = <<>>
    /\ call \in GateCalls
    /\ ret = NoCall
    /\ disk = None

\* wait_for_health_check up to its sleep, or to its return when it has none
GateEnter ==
    /\ call.op = "wait_for_health_check"
    /\ ret = NoCall
    /\ ret' = IF health_check_sleep(call.health_check) > 0
              THEN [op |-> "sleep", secs |-> health_check_sleep(call.health_check)]
              ELSE [op |-> "returned", ok |-> TRUE, slept |-> 0]
    /\ UNCHANGED <<registry, call, disk>>
    /\ RegistryFrame

\* the sleep is over: "Health check passed", Ok(())
GateWake ==
    /\ ret.op = "sleep"
    /\ ret' = [op |-> "returned", ok |-> TRUE, slept |-> ret.secs]
    /\ UNCHANGED <<registry, call, disk>>
    /\ RegistryFrame

NextGate == GateEnter \/ GateWake

SpecGate == InitGate /\ [][NextGate]_vars

\* a tokio sleep always ends
SpecGateLive == SpecGate /\ WF_vars(NextGate)

----------------------------------------------------------------------------
(* The supervisor under fair scheduling *)

\* the steps of task t that call get_global_state(): GLOBAL_STATE.lock()
\* returns once the mutex is free
LockStep(t) ==
    \/ FgLock(t)
    \/ BgLock(t)
    \/ StopDryRun(t)
    \/ StopAll(t)
    \/ StopProject(t)
    \/ StopRemove(t)
    \/ StatusExecute(t)

\* every step of task t's invocation once it has been made, up to its
\* caller taking the result
TaskStep(t) ==
    \/ Forget(t)
    \/ StartExecute(t)
    \/ FgNext(t)
    \/ FgDepSleep(t)
    \/ FgSpawn(t)
    \/ FgHealthWait(t)
    \/ BgSpawn(t)
    \/ BgDelay(t)
    \/ StopExecute(t)
    \/ StopTerm(t)
    \/ StopPoll(t)
    \/ StopKill(t)
    \/ StopKillWait(t)
    \/ LockStep(t)

\* a task that can take a step takes one (spawns and sleeps complete), and
\* a thread waiting in lock() is not passed over for ever
SpecLive == Spec /\ \A t \in Tasks : WF_vars(TaskStep(t)) /\ SF_vars(LockStep(t))

----------------------------------------------------------------------------
(* Properties *)

\* the declared dependencies of the service named n that the list holds
PresentDeps(services, n) ==
    UNION {Range(services[i].dependencies) \cap {services[j].name : j \in DOMAIN services}
           : i \in {k \in DOMAIN services : services[k].name = n}}

RECURSIVE Closure(_, _)
\* the names reachable from the set `from` along depends-on edges
Closure(services, from) ==
    LET more == from \cup UNION {PresentDeps(services, n) : n \in from}
    IN  IF more = from THEN from ELSE Closure(services, more)

\* the present dependencies of n, direct and transitive
TransitiveDeps(services, n) == Closure(services, PresentDeps(services, n))

\* the depends-on edges among the services of the list have no cycle
IsDag(services) ==
    \A i \in DOMAIN services :
        services[i].name \notin TransitiveDeps(services, services[i].name)

Names(services) == [i \in DOMAIN services |-> services[i].name]


\* positions of a command at which its task is suspended (an await of a
\* sleep, or the child spawn)
StartSuspensions == {"fg_dep_sleep", "fg_spawn", "fg_health_wait", "bg_spawn", "bg_delay"}
StopSuspensions == {"stop_poll", "stop_kill_wait"}

\* C1: in a start run, foreground or background, a service is spawned only
\* after each of its declared dependencies that the project holds and that
\* only/skip do not exclude has been spawned and registered in that run.
C1_SpawnAfterDependencies ==
    \A t \in Tasks :
        args[t].kind = "start" =>
            \A i \in Logged(t, "spawn") :
                \A d \in PresentDeps(ProjectServices(args[t].name), log[t][i].service) :
                    should_start_service(args[t], [name |-> d]) =>
                        \E j \in Logged(t, "add") :
                            j < i /\ log[t][j].service = d

\* C2: on a list of uniquely named services whose depends-on edges form a
\* DAG, the resolver's output has every service after each of its present
\* dependencies, direct or transitive.
C2_ResolverOrdersDag ==
    (sortOut # <<>> /\ IsDag(sortIn)) =>
        \A i \in DOMAIN sortOut :
            \A d \in TransitiveDeps(sortIn, sortOut[i].name) :
                \E j \in 1..(i - 1) : sortOut[j].name = d

\* Scenario B: db <- api <- web resolves to [db, api, web]
C2_Witness ==
    /\ sortIn = << Service("web", <<"api">>, None), Service("api", <<"db">>, None),
                   Service("db", <<>>, None) >>
    /\ Names(sortOut) = <<"db", "api", "web">>

\* C3: in a single-project stop, whenever service A depends on service B and
\* both are being stopped, A is sent its termination signal before B is.
C3_DependentsSignalledFirst ==
    \A t \in Tasks :
        (args[t].kind = "stop" /\ ~args[t].all) =>
            \A j \in Logged(t, "TERM") :
                \A k \in DOMAIN queue[t] :
                    ( /\ queue[t][k].pid # log[t][j].pid
                      /\ log[t][j].service \in
                            PresentDeps(ProjectServices(queue[t][k].project_name),
                                        queue[t][k].service_name) )
                    => \E i \in Logged(t, "TERM") :
                            i < j /\ log[t][i].pid = queue[t][k].pid

\* C4: no task holds the registry lock while it is suspended, in a start
\* run (dependency wait, child spawn, health gate, delay between services)
\* or in a stop run (exit polling, the wait after the forced kill).
C4_NoLockWhileSuspended ==
    \A t \in Tasks :
        pc[t] \in StartSuspensions \cup StopSuspensions => lock # t

\* an invocation was given both --only and --skip
BothFilters(t) ==
    args[t].kind \in {"start", "stop"} /\ IsSome(args[t].only) /\ IsSome(args[t].skip)

TimedOutUnforced(t) ==
    /\ args[t].kind = "stop" /\ ~args[t].force
    /\ Logged(t, "timeout") # {}

\* C6: when the process has not exited within the timeout and force is
\* false, the stop call fails with a ProcessError naming the service and
\* its PID, and the run has left the service's record in the registry with
\* status Running (it is there unless another invocation took it out).
C6_TimeoutKeepsRecord ==
    \A t \in Tasks :
        TimedOutUnforced(t) =>
            \A i \in Logged(t, "timeout") :
                /\ pc[t] = "done"
                /\ result[t] = Err("ProcessError", log[t][i].service, log[t][i].pid)
                /\ \A j \in Logged(t, "remove") : log[t][j].pid # log[t][i].pid
                /\ \/ log[t][i].pid \in lost[t]
                   \/ /\ log[t][i].pid \in DOMAIN registry
                      /\ registry[log[t][i].pid].status = "Running"
                      /\ registry[log[t][i].pid].service_name = log[t][i].service

\* a stop without force timed out on a service whose record is still there
C6_Witness ==
    \E t \in Tasks :
        /\ TimedOutUnforced(t)
        /\ pc[t] = "done"
        /\ result[t].kind = "ProcessError"
        /\ result[t].pid \in DOMAIN registry
        /\ result[t].pid \in alive
        /\ lost[t] = {}

\* C7: when the process has not exited within the timeout and force is
\* true, the forceful signal is sent, the record is removed and the stop
\* call succeeds, whether or not the process is seen to have exited.
C7_ForcedStopAlwaysSucceeds ==
    \A t \in Tasks :
        (args[t].kind = "stop" /\ args[t].force /\ pc[t] = "done") =>
            \A i \in Logged(t, "timeout") :
                /\ result[t] = Ok
                /\ \E j \in Logged(t, "KILL") : j > i /\ log[t][j].pid = log[t][i].pid
                /\ \E j \in Logged(t, "remove") : j > i /\ log[t][j].pid = log[t][i].pid

\* C8: when a stop run aborts on a timeout without force, the timeout is the
\* last thing the run did; every service later in the shutdown order has
\* been sent no signal and its record is still in the registry (unless
\* another invocation took it out); what the run deregistered came earlier
\* in the order.
C8_AbortLeavesLaterServices ==
    \A t \in Tasks :
        TimedOutUnforced(t) =>
            /\ pc[t] = "done"
            /\ Logged(t, "timeout") = {Len(log[t])}
            /\ idx[t] \in DOMAIN queue[t]
            /\ log[t][Len(log[t])].pid = queue[t][idx[t]].pid
            /\ \A k \in idx[t]..Len(queue[t]) :
                  \A j \in Logged(t, "remove") : log[t][j].pid # queue[t][k].pid
            /\ \A k \in (idx[t] + 1)..Len(queue[t]) :
                  /\ \A j \in DOMAIN log[t] : log[t][j].pid # queue[t][k].pid
                  /\ \/ queue[t][k].pid \in lost[t]
                     \/ /\ queue[t][k].pid \in DOMAIN registry
                        /\ registry[queue[t][k].pid] = queue[t][k]

\* the run deregistered the first service, timed out on the second of three,
\* and the third is registered, alive and unsignalled
C8_Witness ==
    \E t \in Tasks :
        /\ TimedOutUnforced(t)
        /\ pc[t] = "done"
        /\ Len(queue[t]) = 3 /\ idx[t] = 2
        /\ Logged(t, "remove") # {}
        /\ queue[t][3].pid \in DOMAIN registry \cap alive
        /\ lost[t] = {}

\* C9: when a spawn fails during a start run, foreground or background, no
\* later service is spawned in that run, the run reports an error, and the
\* records registered earlier in the run are left alone.
C9_SpawnFailureAborts ==
    \A t \in Tasks :
        args[t].kind = "start" =>
            \A i \in Logged(t, "spawn_failed") :
                /\ \A j \in Logged(t, "spawn") : j < i
                /\ pc[t] = "done" => result[t] # Ok
                /\ Logged(t, "remove") = {}

\* C10: one start invocation runs the background path or the foreground
\* path, never both, as --background says, and spawns each service at most
\* once.
C10_OnePathPerInvocation ==
    \A t \in Tasks :
        args[t].kind = "start" =>
            /\ Logged(t, "background") # {} => args[t].background
            /\ Logged(t, "foreground") # {} => ~args[t].background
            /\ args[t].background =>
                  pc[t] \notin {"fg_lock", "fg_next", "fg_dep_sleep", "fg_spawn",
                                "fg_health_wait"}
            /\ ~args[t].background => pc[t] \notin {"bg_lock", "bg_spawn", "bg_delay"}
            /\ \A i, j \in Logged(t, "spawn") :
                  log[t][i].service = log[t][j].service => i = j

\* a background run has returned after spawning both services of the project
C10_Witness ==
    \E t \in Tasks :
        /\ args[t].kind = "start" /\ args[t].background
        /\ pc[t] = "done" /\ result[t] = Ok
        /\ Cardinality(Logged(t, "spawn")) = 2
        /\ Logged(t, "foreground") = {}

\* C11: in background mode the start call returns right after dispatch:
\* when it has returned, no service has yet had to be spawned (or to fail
\* to spawn) for it to return, and no delay between services was awaited.
C11_BackgroundReturnsAtOnce ==
    \A t \in Tasks :
        (args[t].kind = "start" /\ args[t].background /\ pc[t] = "done") =>
            Logged(t, "spawn") \cup Logged(t, "spawn_failed") = {}

\* the step is one of task t's own (every action of a task but the skip of
\* a filtered service moves its pc)
StepOf(t) == pc'[t] # pc[t]

\* the indices of the events a step appends to t's log
Appended(t) ==
    IF Len(log'[t]) > Len(log[t]) THEN (Len(log[t]) + 1)..Len(log'[t]) ELSE {}

\* C12: in a start run every successful spawn is followed, in the same step
\* of the run (before the next service is looked at), by the insertion of
\* exactly one record, with status Running and the spawn's PID, service
\* name and project name; a step of a start run that spawned nothing
\* leaves the registry as it was.
C12_RecordPerSpawn ==
    [][\A t \in Tasks :
        (args[t].kind = "start" /\ StepOf(t)) =>
            LET spawns == {i \in Appended(t) : log'[t][i].ev = "spawn"} IN
            /\ Cardinality(spawns) <= 1
            /\ spawns = {} => registry' = registry
            /\ \A i \in spawns :
                  LET p == log'[t][i].pid IN
                  /\ p \in DOMAIN registry'
                  /\ registry'[p] =
                        ProcessInfo(p, log'[t][i].service, args[t].name, "Running")
                  /\ log'[t][i].service = queue[t][idx[t]].name
                  /\ DOMAIN registry' = DOMAIN registry \cup {p}
                  /\ \A q \in DOMAIN registry \ {p} : registry'[q] = registry[q]
      ]_vars

\* a foreground run has returned Ok with both of its spawns on record
C12_Witness ==
    \E t \in Tasks :
        /\ args[t].kind = "start" /\ ~args[t].background
        /\ pc[t] = "done" /\ result[t] = Ok
        /\ Cardinality(Logged(t, "spawn")) = 2
        /\ \A i \in Logged(t, "spawn") :
              /\ log[t][i].pid \in DOMAIN registry
              /\ registry[log[t][i].pid] =
                    ProcessInfo(log[t][i].pid, log[t][i].service, args[t].name, "Running")

\* eligibility as the specification words it
Eligible(a, n) ==
    /\ (a.only = None \/ n \in Unwrap(a.only))
    /\ (a.skip = None \/ n \notin Unwrap(a.skip))

\* the service names of the events e in t's log
ServicesLogged(t, e) == {log[t][i].service : i \in Logged(t, e)}

\* C13: the filter of a start run decides eligibility as specified; a
\* service that is not eligible is never spawned and never registered by
\* the run, and a run that returned Ok has tried every eligible service.
C13_OnlyEligibleStarted ==
    \A t \in Tasks :
        (args[t].kind = "start" /\ args[t].name \in Projects) =>
            /\ \A i \in DOMAIN ProjectServices(args[t].name) :
                  should_start_service(args[t], ProjectServices(args[t].name)[i])
                      <=> Eligible(args[t], ProjectServices(args[t].name)[i].name)
            /\ \A n \in ServicesLogged(t, "spawn") \cup ServicesLogged(t, "add")
                        \cup ServicesLogged(t, "add_unsaved")
                        \cup ServicesLogged(t, "spawn_failed") :
                  Eligible(args[t], n)
            /\ (pc[t] = "done" /\ result[t] = Ok /\ ~args[t].dry_run) =>
                  ServicesLogged(t, "spawn") \cup ServicesLogged(t, "spawn_failed")
                      = {n \in Range(Names(ProjectServices(args[t].name))) :
                            Eligible(args[t], n)}

\* start --only api on a fresh registry: api was spawned and registered, and
\* db, which api depends on, is not in the registry
C13_Witness ==
    \E t \in Tasks :
        /\ args[t].kind = "start" /\ args[t].only = Some({"api"})
        /\ pc[t] = "done" /\ result[t] = Ok
        /\ ServicesLogged(t, "add") = {"api"}
        /\ DOMAIN registry # {}
        /\ \A p \in DOMAIN registry : registry[p].service_name # "db"

\* C14: a dry-run start or stop spawns nothing and signals nothing (its
\* log stays empty, it never enters a start or stop loop), and none of its
\* steps changes the registry or the processes: the record count after the
\* dry run is the count before it.
C14_DryRunChangesNothing ==
    /\ [](\A t \in Tasks :
            (args[t].kind \in {"start", "stop"} /\ args[t].dry_run) =>
                /\ pc[t] \in {"execute", "stop_dry_run", "done"}
                /\ log[t] = <<>>
                /\ lock # t)
    /\ [][\A t \in Tasks :
            (args[t].kind \in {"start", "stop"} /\ args[t].dry_run /\ StepOf(t)) =>
                /\ registry' = registry
                /\ Cardinality(DOMAIN registry') = Cardinality(DOMAIN registry)
                /\ alive' = alive]_vars

\* a forced dry-run stop has returned Ok with records in the registry and
\* their processes alive
C14_Witness ==
    \E t \in Tasks :
        /\ args[t].kind = "stop" /\ args[t].dry_run /\ args[t].force
        /\ pc[t] = "done" /\ result[t] = Ok
        /\ DOMAIN registry # {}
        /\ DOMAIN registry \subseteq alive

\* C15: for the same project and options, the dry run lists the services in
\* the order, and with the start/skip decision, in which the start proper
\* processes them.
C15_DryRunListsStartOrder ==
    ret.op = "plan" => ret.listed = ret.processed

\* the PIDs of the records of a returned sequence
PidsOf(records) == {records[i].pid : i \in DOMAIN records}

\* C16: whatever the registry held, once a record with PID p is added all()
\* returns a record with PID p and by_project of its project finds it; once
\* p is removed, all() returns no record with PID p.
C16_AddThenRemove ==
    /\ (call.op = "add_process" /\ ret.op = "get_all_processes") =>
          \E i \in DOMAIN ret.value :
              ret.value[i] = ProcessInfo(call.pid, call.service_name,
                                         call.project_name, "Running")
    /\ (call.op = "add_process" /\ ret.op = "get_project_processes"
            /\ ret.project_name = call.project_name) =>
          call.pid \in PidsOf(ret.value)
    /\ (call.op = "remove_process" /\ ret.op = "get_all_processes") =>
          call.pid \notin PidsOf(ret.value)

\* all() after the removal of a PID that was there, two records remaining
C16_Witness ==
    /\ call.op = "remove_process" /\ call.present
    /\ ret.op = "get_all_processes"
    /\ Len(ret.value) = 2
    /\ call.pid \notin PidsOf(ret.value)

\* the last operation was a remove_process of a PID the map had no record of
RemovedAbsent == call.op = "remove_process" /\ ~call.present /\ ret.op = "remove_process"

C18_RunningMatchesBothFields ==
    ret.op = "is_service_running" =>
        (ret.manager <=>
            \E p \in DOMAIN registry :
                /\ registry[p].status = "Running"
                /\ registry[p].project_name = ret.project_name
                /\ registry[p].service_name = ret.service_name)

\* C19: by_project(name) returns exactly the records whose project name is
\* name and whose status is Running, each once; for an empty registry or a
\* project without records it returns the empty sequence.
C19_ByProjectExact ==
    ret.op = "get_project_processes" =>
        /\ Range(ret.value) =
              {registry[p] : p \in {q \in DOMAIN registry :
                                      /\ registry[q].project_name = ret.project_name
                                      /\ registry[q].status = "Running"}}
        /\ Cardinality(Range(ret.value)) = Len(ret.value)
        /\ (\A p \in DOMAIN registry : registry[p].project_name # ret.project_name)
              => ret.value = <<>>

\* by_project returned the one Running record of a project that also has a
\* record that is not Running, next to a record of another project
C19_Witness ==
    /\ ret.op = "get_project_processes"
    /\ Len(ret.value) = 1
    /\ \E p, q \in DOMAIN registry :
          /\ registry[p].project_name = ret.project_name
          /\ registry[p].status = "Stopped"
          /\ registry[q].project_name # ret.project_name

\* positions of a stop run at which it holds the snapshot it is working on
StopLoop == {"stop_term", "stop_poll", "stop_kill", "stop_kill_wait", "stop_remove"}

\* C20: the sequence get_running_services returns is a copy of the registry
\* at one instant, taken with the lock free for the taking: a stop run's
\* list is exactly the records the registry held for the project at that
\* step, and no add or remove made afterwards, by any task, changes the
\* list the run holds.
C20_SnapshotIsACopy ==
    [][\A t \in Tasks :
        /\ (args[t].kind = "stop" /\ pc[t] = "stop_project" /\ pc'[t] = "stop_term") =>
              /\ lock = NoTask
              /\ Range(queue'[t]) =
                    {registry[p] : p \in {q \in DOMAIN registry :
                        /\ registry[q].project_name = CurrentProject(t)
                        /\ should_stop_service(args[t], registry[q])}}
              /\ Len(queue'[t]) = Cardinality(Range(queue'[t]))
        /\ (args[t].kind = "stop" /\ pc[t] \in StopLoop) => queue'[t] = queue[t]
      ]_vars

\* a stop run still holds, in its list, a record that another invocation
\* has since removed from the registry
C20_Witness ==
    \E t \in Tasks :
        /\ args[t].kind = "stop" /\ pc[t] \in StopLoop
        /\ \E k \in DOMAIN queue[t] :
              /\ k > idx[t]
              /\ queue[t][k].pid \in lost[t]
              /\ queue[t][k].pid \notin DOMAIN registry

\* C21: a newly constructed ProcessState holds no record, whatever earlier
\* instances added or left behind.
C21_NewInstanceIsEmpty ==
    (call.op = "new" /\ ret.op = "new") => DOMAIN registry = {}

\* C22: a dry-run start of an existing project returns success whatever its
\* other options are (only and skip both given, background set), and has
\* spawned nothing.
C22_DryRunStartSucceeds ==
    \A t \in Tasks :
        (args[t].kind = "start" /\ args[t].dry_run /\ args[t].name \in Projects
            /\ pc[t] = "done") =>
                /\ result[t] = Ok
                /\ log[t] = <<>>

\* the list with every dependency name that matches no service taken out
WithoutAbsent(services) ==
    LET present(n) == \E j \in DOMAIN services : services[j].name = n
    IN  [i \in DOMAIN services |->
            [services[i] EXCEPT !.dependencies = SelectSeq(@, present)]]

\* some dependency of the list names no service of the list
HasAbsent(services) == WithoutAbsent(services) # services

\* C23: on every list of uniquely named services, absent dependency names
\* included, the resolver returns a permutation of its input (each service
\* once, nothing else), and the order is the one it gives the same list
\* with the absent names left out.
C23_ResolverPermutes ==
    sortOut # <<>> =>
        /\ Len(sortOut) = Len(sortIn)
        /\ Range(sortOut) = Range(sortIn)
        /\ \A i, j \in DOMAIN sortOut : i # j => sortOut[i] # sortOut[j]
        /\ Names(sortOut) = Names(sort_services_by_dependencies(WithoutAbsent(sortIn)))

\* web lists the absent "cache" before api: the output is still api, web, db
C23_Witness ==
    /\ sortIn = << Service("web", <<"cache", "api">>, None),
                   Service("api", <<"cache">>, None),
                   Service("db", <<>>, None) >>
    /\ HasAbsent(sortIn)
    /\ Names(sortOut) = <<"api", "web", "db">>

\* the place of the service named n in a list that holds it
Pos(services, n) == CHOOSE k \in DOMAIN services : services[k].name = n

\* neither service is reachable from the other along depends-on edges
Independent(services, a, b) ==
    /\ a \notin TransitiveDeps(services, b)
    /\ b \notin TransitiveDeps(services, a)

\* C24 as stated: the resolver is deterministic and stable: any two services with no
\* dependency path between them, in either direction, come out in the order
\* they went in.
C24_StableAmongIndependent ==
    sortOut # <<>> =>
        /\ sortOut = sort_services_by_dependencies(sortIn)
        /\ \A i, j \in DOMAIN sortIn :
              (i < j /\ Independent(sortIn, sortIn[i].name, sortIn[j].name)) =>
                  Pos(sortOut, sortIn[i].name) < Pos(sortOut, sortIn[j].name)

\* C24, amended: the resolver is deterministic, and a service comes out
\* before one listed earlier only when it is a dependency, direct or
\* transitive, of that one or of a service listed before it.
C24_InputOrderUnlessPulled ==
    sortOut # <<>> =>
        /\ sortOut = sort_services_by_dependencies(sortIn)
        /\ \A i, j \in DOMAIN sortIn :
              (i < j /\ sortIn[j].name \notin
                            Closure(sortIn, {sortIn[k].name : k \in 1..i})) =>
                  Pos(sortOut, sortIn[i].name) < Pos(sortOut, sortIn[j].name)

\* web pulls db ahead of api, which has no dependency path to or from db;
\* api still comes after web
C24_Witness ==
    /\ sortIn = << Service("web", <<"db">>, None), Service("api", <<>>, None),
                   Service("db", <<>>, None) >>
    /\ Independent(sortIn, "api", "db")
    /\ Names(sortOut) = <<"db", "web", "api">>

\* the records a status call with options a is to show
Shown(a) ==
    {p \in DOMAIN registry :
        /\ IsSome(a.project_name) => registry[p].project_name = Unwrap(a.project_name)
        /\ a.errors => registry[p].status \in {"Stopped", "Error"}}

\* C25: the status snapshot marks a record Healthy exactly when its status is
\* Running and Unhealthy exactly when it is Stopped or Error; it holds, once
\* each, the records of the project asked for (all projects when none is)
\* and, with --errors, only the Unhealthy ones; on an empty registry it is
\* empty and the call succeeds.
C25_StatusSnapshot ==
    call.op = "status" =>
        /\ ret.ok
        /\ \A i \in DOMAIN ret.value :
              LET s == ret.value[i] IN
              /\ s.pid \in DOMAIN registry
              /\ s.name = registry[s.pid].service_name
              /\ s.project = registry[s.pid].project_name
              /\ s.status = registry[s.pid].status
              /\ s.health = "Healthy" <=> s.status = "Running"
              /\ s.health = "Unhealthy" <=> s.status \in {"Stopped", "Error"}
        /\ {ret.value[i].pid : i \in DOMAIN ret.value} = Shown(call.a)
        /\ Len(ret.value) = Cardinality(Shown(call.a))
        /\ registry = <<>> => ret.value = <<>>

\* `status shop --errors` on a registry holding a Running, a Stopped and an
\* Error record of shop: the Stopped and the Error one are shown
C25_Witness ==
    /\ call.op = "status" /\ call.a = StatusArgs(Some("shop"), TRUE)
    /\ \A p \in DOMAIN registry : registry[p].project_name = "shop"
    /\ {registry[p].status : p \in DOMAIN registry} = ProcessStatuses
    /\ {ret.value[i].status : i \in DOMAIN ret.value} = {"Stopped", "Error"}

\* C26: the registry changes only by the add that follows a successful spawn
\* in a start run and by the remove of the stop path; a status call, a dry
\* run and the exit of a process, tracked or not, leave it as it was.
C26_OnlyAddAndRemove ==
    [][/\ registry' # registry =>
            \E t \in Tasks :
                \/ /\ args[t].kind = "start" /\ ~args[t].dry_run
                   /\ pc[t] \in {"fg_spawn", "bg_spawn"}
                   /\ \E i \in Appended(t) :
                         /\ log'[t][i].ev = "spawn"
                         /\ log'[t][i].pid \in alive' \ alive
                         /\ registry' = add_process(registry, log'[t][i].pid,
                                                    log'[t][i].service, args[t].name)
                \/ /\ args[t].kind = "stop" /\ ~args[t].dry_run
                   /\ pc[t] = "stop_remove"
                   /\ registry' = remove_process(registry, queue[t][idx[t]].pid)
       /\ \A t \in Tasks :
            (args[t].kind = "status" /\ StepOf(t)) => registry' = registry
       /\ \A t \in Tasks :
            (args[t].kind \in {"start", "stop"} /\ args[t].dry_run /\ StepOf(t)) =>
                registry' = registry
       /\ (alive' \subseteq alive /\ alive' # alive) => registry' = registry
      ]_vars

\* a status call has returned while the registry still holds the record of
\* a process that has exited
C26_Witness ==
    \E t \in Tasks :
        /\ args[t].kind = "status" /\ pc[t] = "done" /\ result[t] = Ok
        /\ \E p \in DOMAIN registry : p \notin alive

HasCycle(services) == ~IsDag(services)

\* C28 as stated: on a list whose depends-on edges contain a cycle the
\* resolver recurses without bound and never returns an order.
C28_CycleNeverReturns ==
    HasCycle(sortIn) => sortOut = <<>>

\* C28, amended: on a list whose depends-on edges contain a cycle, a
\* service that names itself included, the resolver visits each service
\* once and returns: the output is a permutation of the input, in which
\* some service of a cycle comes no later than one of its dependencies.
C28_CycleReturnsPermutation ==
    /\ [](HasCycle(sortIn) /\ sortOut # <<>> =>
            /\ Len(sortOut) = Len(sortIn)
            /\ Range(sortOut) = Range(sortIn)
            /\ \E i \in DOMAIN sortOut :
                  \E d \in PresentDeps(sortIn, sortOut[i].name) :
                      i <= Pos(sortOut, d))
    /\ (HasCycle(sortIn) ~> sortOut # <<>>)

\* web and api name each other and db names itself: the order is api, web, db
C28_Witness ==
    /\ sortIn = << Service("web", <<"api">>, None), Service("api", <<"web">>, None),
                   Service("db", <<"db">>, None) >>
    /\ HasCycle(sortIn)
    /\ Names(sortOut) = <<"api", "web", "db">>

\* C29: a foreground start run goes on to spawn a service only when
\* is_service_running(project, dep) holds of every dependency the service
\* declares, the check being made again after each sleep.
C29_SpawnOnlyWhenDepsRunning ==
    \A t \in Tasks :
        (args[t].kind = "start" /\ pc[t] = "fg_spawn") =>
            \A d \in Range(queue[t][idx[t]].dependencies) :
                is_service_running(registry, args[t].name, d)

\* the service named n of the list declares a health check
DeclaresHealthCheck(services, n) ==
    \E i \in DOMAIN services : services[i].name = n /\ IsSome(services[i].health_check)

\* C30: in a start run, foreground or background, a service that depends on
\* a service with a declared health check is spawned only after that
\* dependency's health gate has returned success in the run.
C30_SpawnAfterDependencyGate ==
    \A t \in Tasks :
        args[t].kind = "start" =>
            \A i \in Logged(t, "spawn") :
                \A d \in PresentDeps(ProjectServices(args[t].name), log[t][i].service) :
                    DeclaresHealthCheck(ProjectServices(args[t].name), d) =>
                        \E j \in Logged(t, "health_passed") :
                            j < i /\ log[t][j].service = d

\* C31 as stated: the health gate returns success for every health check,
\* after a delay for kind http and kind port and at once for any other kind.
C31_GatePassesByKind ==
    ret.op = "returned" =>
        /\ ret.ok
        /\ call.health_check.type_entry \in {"http", "port"} => ret.slept > 0
        /\ call.health_check.type_entry \notin {"http", "port"} => ret.slept = 0

\* C31, amended: the health gate ends with success for every health check
\* and never returns failure: kind http after a fixed delay, kind port
\* after a fixed delay when a port number is given and at once when none
\* is, any other kind at once.
C31_GateAlwaysPasses ==
    /\ [](ret.op = "returned" =>
            /\ ret.ok
            /\ call.health_check.type_entry = "http" => ret.slept = 2
            /\ (call.health_check.type_entry = "port" /\ IsSome(call.health_check.port))
                  => ret.slept = 1
            /\ (call.health_check.type_entry = "port" /\ ~IsSome(call.health_check.port))
                  => ret.slept = 0
            /\ call.health_check.type_entry \notin {"http", "port"} => ret.slept = 0)
    /\ (call.op = "wait_for_health_check" ~> ret.op = "returned")

\* a "port" check without a port number has passed without any sleep
C31_Witness ==
    /\ call.op = "wait_for_health_check"
    /\ call.health_check = HealthCheck("port", None)
    /\ ret.op = "returned" /\ ret.ok /\ ret.slept = 0

\* C32: in a stop run a process seen to have exited within the timeout
\* after its graceful signal has its record removed before the next record
\* is signalled, and the run goes on with the next record; the run removes
\* at most as many records as it selected.
C32_ExitedThenRemovedThenNext ==
    /\ [](\A t \in Tasks :
            args[t].kind = "stop" =>
                /\ \A i, j \in Logged(t, "TERM") :
                      i < j => \E r \in Logged(t, "remove") :
                                  i < r /\ r < j /\ log[t][r].pid = log[t][i].pid
                /\ pc[t] \in StopLoop => idx[t] \in 1..Len(queue[t]))
    /\ [][\A t \in Tasks :
            (args[t].kind = "stop" /\ StepOf(t) /\ pc[t] = "stop_poll"
                /\ polls[t] < TimeoutPolls /\ queue[t][idx[t]].pid \notin alive) =>
                    pc'[t] = "stop_remove" /\ idx'[t] = idx[t]]_vars
    /\ [][\A t \in Tasks :
            (args[t].kind = "stop" /\ StepOf(t) /\ pc[t] = "stop_remove") =>
                /\ registry' = remove_process(registry, queue[t][idx[t]].pid)
                /\ queue[t][idx[t]].pid \notin DOMAIN registry'
                /\ idx'[t] = idx[t] + 1
                /\ idx'[t] <= Len(queue[t]) => pc'[t] = "stop_term"]_vars

\* an unforced stop has signalled one process, seen it exit, removed its
\* record and signalled the next
C32_Witness ==
    \E t \in Tasks :
        /\ args[t].kind = "stop" /\ ~args[t].force
        /\ \E i, j \in Logged(t, "TERM") : \E r \in Logged(t, "remove") :
              /\ i < r /\ r < j
              /\ log[t][r].pid = log[t][i].pid
              /\ log[t][j].pid # log[t][i].pid
              /\ log[t][i].pid \notin DOMAIN registry

\* C33: a forceful signal goes to a PID only when force was asked for, a
\* graceful signal went to that PID earlier in the same run and the whole
\* timeout went by with the process still alive; never after another
\* failure of the graceful step, never without force.
C33_KillOnlyAfterTimeout ==
    \A t \in Tasks :
        args[t].kind = "stop" =>
            \A k \in Logged(t, "KILL") \cup Logged(t, "KILL_failed") :
                /\ args[t].force
                /\ \E i \in Logged(t, "TERM") : \E j \in Logged(t, "timeout") :
                      /\ i < j /\ j < k
                      /\ log[t][i].pid = log[t][k].pid
                      /\ log[t][j].pid = log[t][k].pid

\* a stop of all projects has given up with an error
StopAllAborted(t) ==
    args[t].kind = "stop" /\ args[t].all /\ pc[t] = "done"
        /\ result[t].kind = "ProcessError"

\* C34: stop of all projects takes the distinct project names of the
\* registry, runs the single-project sequence on one after the other, and
\* gives up at the first project whose stop fails: the projects not yet
\* reached have had no service signalled and keep their records (unless
\* another invocation took them out).
C34_StopAllAbortsAtFirstError ==
    /\ [](\A t \in Tasks :
            (args[t].kind = "stop" /\ args[t].all) =>
                /\ \A i, j \in DOMAIN projq[t] : i # j => projq[t][i] # projq[t][j]
                /\ pc[t] \in StopLoop =>
                      \A k \in DOMAIN queue[t] : queue[t][k].project_name = Head(projq[t])
                /\ (~args[t].force /\ Logged(t, "timeout") \cup Logged(t, "TERM_failed") # {}) =>
                      StopAllAborted(t)
                /\ StopAllAborted(t) =>
                      \A k \in 2..Len(projq[t]) :
                          /\ \A p \in DOMAIN registry :
                                registry[p].project_name = projq[t][k] =>
                                    \A j \in DOMAIN log[t] : log[t][j].pid # p
                          /\ \/ lost[t] # {}
                             \/ \E p \in DOMAIN registry :
                                   registry[p].project_name = projq[t][k])
    /\ [][\A t \in Tasks :
            (args[t].kind = "stop" /\ pc[t] = "stop_all" /\ pc'[t] = "stop_project") =>
                /\ Range(projq'[t]) = {registry[p].project_name : p \in DOMAIN registry}
                /\ Len(projq'[t]) = Cardinality(Range(projq'[t]))]_vars
    /\ [][\A t \in Tasks :
            (StopAllAborted(t)' /\ pc[t] # "done") =>
                registry' = registry /\ projq'[t] = projq[t]]_vars

\* stop --all gave up on the first of two projects: the records of the
\* second are all there, alive and unsignalled
C34_Witness ==
    \E t \in Tasks :
        /\ StopAllAborted(t)
        /\ Len(projq[t]) = 2
        /\ lost[t] = {}
        /\ \E p \in DOMAIN registry \cap alive :
              /\ registry[p].project_name = projq[t][2]
              /\ \A j \in DOMAIN log[t] : log[t][j].pid # p

\* C35: a stop run issues a termination signal only for a PID whose record
\* is in the registry at that moment, whatever another stop running at the
\* same time has removed.
C35_SignalOnlyRegistered ==
    [][\A t \in Tasks :
        args[t].kind = "stop" =>
            \A i \in Appended(t) :
                log'[t][i].ev \in {"TERM", "TERM_failed", "KILL", "KILL_failed"} =>
                    log'[t][i].pid \in DOMAIN registry
      ]_vars

\* C36: when the process of a record is already gone as a stop run reaches
\* it, the run removes the record and goes on to the next one, with force
\* or without: the run does not fail on it, and the record is not left
\* behind when the stop returns.
C36_DeadProcessIsDeregistered ==
    \A t \in Tasks :
        (args[t].kind = "stop" /\ pc[t] = "done") =>
            \A i \in Logged(t, "TERM_failed") :
                /\ result[t] = Ok
                /\ log[t][i].pid \notin DOMAIN registry

\* task t is about to call get_global_state()
LockRequested(t) ==
    \/ pc[t] \in {"fg_lock", "bg_lock", "stop_dry_run", "stop_all", "stop_project",
                  "stop_remove"}
    \/ pc[t] = "execute" /\ args[t].kind = "status"

StoppedWholeProject(t) ==
    /\ pc[t] = "done"
    /\ args[t].kind = "stop"
    /\ ~args[t].all
    /\ ~args[t].dry_run
    /\ args[t].only = None
    /\ args[t].skip = None
    /\ result[t] = Ok

\* C38: when stop of a single project returns success and neither only nor
\* skip was supplied, none of the project's records that the run found in
\* its snapshot is in the registry: the run has deleted the entry of each
\* of their PIDs since the snapshot, and each deletion left no entry under
\* that PID (an entry found there at the return is a later registration).
C38_SuccessfulStopLeavesNoRecord ==
    /\ [](\A t \in Tasks :
            StoppedWholeProject(t) =>
                \A i \in DOMAIN queue[t] :
                    \E j \in Logged(t, "remove") : log[t][j].pid = queue[t][i].pid)
    /\ [][\A t \in Tasks :
            \A j \in Appended(t) :
                log'[t][j].ev = "remove" => log'[t][j].pid \notin DOMAIN registry'
         ]_vars

\* a stop of the whole project has returned success after removing two
\* records
C38_Witness ==
    \E t \in Tasks :
        /\ StoppedWholeProject(t)
        /\ Len(queue[t]) = 2
        /\ Cardinality(Logged(t, "remove")) = 2

\* C39: the registry never holds two records of one PID (every record is
\* filed under its own PID), and adding a record whose PID is already
\* registered replaces the earlier record: the new record is the one found
\* under the PID, the other records are as they were, and the number of
\* records is unchanged.
C39_OneRecordPerPid ==
    /\ [](\A p \in DOMAIN registry : registry[p].pid = p)
    /\ [][(call'.op = "add_process" /\ ret'.op = "add_process" /\ call'.present) =>
            /\ Cardinality(DOMAIN registry') = Cardinality(DOMAIN registry)
            /\ registry'[call'.pid] = ProcessInfo(call'.pid, call'.service_name,
                                                  call'.project_name, "Running")
            /\ \A q \in DOMAIN registry \ {call'.pid} :
                  q \in DOMAIN registry' /\ registry'[q] = registry[q]
         ]_vars

\* a record was added under a PID that already held one, beside a record
\* of another PID; the new record is the one found under the PID
C39_Witness ==
    /\ call.op = "add_process" /\ ret.op = "add_process" /\ call.present
    /\ Cardinality(DOMAIN registry) = 2
    /\ registry[call.pid].service_name = call.service_name
    /\ registry[call.pid].project_name = call.project_name

\* the --errors snapshots status may return in this state: every project
\* filter, every order get_running_services may return the records in
ErrorSnapshots ==
    {get_active_services(StatusArgs(pn, TRUE), real_services) :
        pn \in {None} \cup {Some(pr) : pr \in Projects},
        real_services \in RunningServicesOrders(registry)}

\* C40: whatever start, stop and status invocations have run, every record
\* in the registry has status Running; so no record is classified
\* Unhealthy, and a status snapshot taken with the errors filter is empty.
C40_EveryRecordIsRunning ==
    /\ \A p \in DOMAIN registry :
          /\ registry[p].status = "Running"
          /\ convert_to_live_state(registry[p]).health # "Unhealthy"
    /\ ErrorSnapshots = {<<>>}

\* a status --errors has returned while the registry holds two records,
\* after the same task's earlier start registered them
C40_Witness ==
    \E t \in Tasks :
        /\ pc[t] = "done"
        /\ args[t].kind = "status"
        /\ args[t].errors
        /\ Cardinality(DOMAIN registry) = 2

====
